---- MODULE Spec2Model ----
(***************************************************************************)
(* The PrayTimes calculator of src/Pages/PrayerTimesTamilNadu.py.          *)
(*                                                                         *)
(* Python values are represented as follows.                               *)
(*  - A str is the sequence of its characters, so that parsing and         *)
(*    searching are computed, not assumed.                                 *)
(*  - A setting value is a record Num(n) (n in tenths: 17.7 is Num(177))   *)
(*    or Str(s); a dict is a function whose DOMAIN is its set of keys.     *)
(*  - A float holding a time of day is Fin(v) or NaN; v counts quanta,     *)
(*    Resolution quanta to the second (see FRound).                        *)
(***************************************************************************)
EXTENDS Integers, Sequences, FiniteSets, TLC

VARIABLES
    methods,      \* PrayTimes.methods: class attribute, one dict for all instances
    settings,     \* PrayTimes.settings: class attribute, one dict for all instances
    offset,       \* PrayTimes.offset: class attribute, one dict for all instances
    alive,        \* the instances constructed so far
    calcMethod,   \* self.calcMethod of each instance
    timeFormat,   \* self.timeFormat of each instance
    geo,          \* self.lat, self.lng, self.elv, self.timeZone, self.jDate
    raised,       \* exception raised by the last call, "none" if it returned
    last,         \* the last call: operation, instance, arguments
    ret           \* what the last call on each instance returned, NoRet for None

vars == <<methods, settings, offset, alive, calcMethod, timeFormat, geo,
          raised, last, ret>>

Instances == {"A", "B"}

------------------------------------------------------------------------------
(* Values *)

Num(n) == [k |-> "num", n |-> n, s |-> <<>>]
Str(s) == [k |-> "str", n |-> 0, s |-> s]

s_20min       == <<"2","0"," ","m","i","n">>
s_15min       == <<"1","5"," ","m","i","n">>
s_0min        == <<"0"," ","m","i","n">>
s_90min       == <<"9","0"," ","m","i","n">>
s_Standard    == <<"S","t","a","n","d","a","r","d">>
s_Hanafi      == <<"H","a","n","a","f","i">>
s_Jafari      == <<"J","a","f","a","r","i">>
s_NightMiddle == <<"N","i","g","h","t","M","i","d","d","l","e">>
s_OneSeventh  == <<"O","n","e","S","e","v","e","n","t","h">>
s_AngleBased  == <<"A","n","g","l","e","B","a","s","e","d">>
s_None        == <<"N","o","n","e">>

\* update of one dict by another (dict.update)
update(d, p) ==
    [k \in DOMAIN d \cup DOMAIN p |-> IF k \in DOMAIN p THEN p[k] ELSE d[k]]

EmptyDict == [k \in {} |-> 0]

------------------------------------------------------------------------------
(* Constants of the class *)

timeNames == <<"imsak", "fajr", "sunrise", "dhuhr", "asr", "sunset",
               "maghrib", "isha", "midnight">>

\* the keys of PrayTimes.methods in the order the dict literal lists them
methodOrder == <<"MWL", "ISNA", "Egypt", "Makkah", "Karachi", "Tehran",
                 "Jafari", "TN">>

MethodNames == {methodOrder[n] : n \in 1..Len(methodOrder)}

\* PrayTimes.methods as the class statement leaves it ('params' only)
methodsDecl ==
    [m \in MethodNames |->
        CASE m = "MWL"     -> [fajr |-> Num(180), isha |-> Num(170)]
          [] m = "ISNA"    -> [fajr |-> Num(150), isha |-> Num(150)]
          [] m = "Egypt"   -> [fajr |-> Num(195), isha |-> Num(175)]
          [] m = "Makkah"  -> [fajr |-> Num(185), isha |-> Str(s_90min)]
          [] m = "Karachi" -> [fajr |-> Num(180), isha |-> Num(180)]
          [] m = "Tehran"  -> [fajr |-> Num(177), isha |-> Num(140),
                               maghrib |-> Num(45), midnight |-> Str(s_Jafari)]
          [] m = "Jafari"  -> [fajr |-> Num(160), isha |-> Num(140),
                               maghrib |-> Num(40), midnight |-> Str(s_Jafari)]
          [] m = "TN"      -> [fajr |-> Num(180), isha |-> Num(180)]]

defaultParams == [maghrib |-> Str(s_0min), midnight |-> Str(s_Standard)]

\* PrayTimes.settings as the class statement leaves it
settingsDecl ==
    [imsak |-> Str(s_20min), dhuhr |-> Str(s_15min),
     asr |-> Str(s_Standard), highLats |-> Str(s_NightMiddle)]

\* class attributes calcMethod, timeFormat, invalidTime
classCalcMethod == "MWL"
classTimeFormat == "24h"
invalidTime == <<"-","-","-","-","-">>

------------------------------------------------------------------------------
(* Arguments the callers supply *)

\* method names passed to the constructor and to setMethod
MethodArgs == MethodNames \cup {"Hanafi"}

\* partial parameter maps passed to adjust
AdjustArgs ==
    { [asr |-> Str(s_Hanafi)],
      [asr |-> Str(s_Standard)],
      [highLats |-> Str(s_AngleBased)],
      [fajr |-> Num(200), maghrib |-> Str(s_15min)] }

\* partial offset maps passed to tune
TuneArgs ==
    { [fajr |-> 2], [dhuhr |-> 5, isha |-> 0 - 3] }

NoGeo == [lat |-> 0, lng |-> 0, elv |-> 0, timeZone |-> 0, jDate |-> 0,
          set |-> FALSE]
NoRet == [called |-> FALSE]
NoCall == [op |-> "none", inst |-> "", method |-> "",
           params |-> EmptyDict]

------------------------------------------------------------------------------
(* Configuration *)

\* the back-fill without the test of line 100: the defaults overwrite
fillDefaultsOverwrite(ms) ==
    [m \in DOMAIN ms |-> update(ms[m], defaultParams)]

\* lines 98-101: back-fill of the defaults into every method's params
fillDefaults(ms) ==
    [m \in DOMAIN ms |->
        [name \in DOMAIN ms[m] \cup DOMAIN defaultParams |->
            IF name \in DOMAIN ms[m] THEN ms[m][name] ELSE defaultParams[name]]]

\* the value of the local name `method` once the loop of lines 98-101 is over:
\* the loop rebinds it to every key of self.methods in turn
methodAfterLoop(method, ms) ==
    IF DOMAIN ms = {} THEN method ELSE methodOrder[Len(methodOrder)]

\* line 104
chosenMethod(method, ms) ==
    LET m == methodAfterLoop(method, ms)
    IN  IF m \in DOMAIN ms THEN m ELSE "MWL"

\* PrayTimes(method)
Construct(i, method) ==
    /\ i \notin alive
    /\ LET ms == fillDefaults(methods)
           cm == chosenMethod(method, ms)
       IN  /\ methods' = ms
           /\ calcMethod' = [calcMethod EXCEPT ![i] = cm]
           /\ settings' = update(settings, ms[cm])
    /\ offset' = update(offset, [n \in {timeNames[x] : x \in 1..Len(timeNames)} |-> 0])
    /\ alive' = alive \cup {i}
    /\ raised' = "none"
    /\ last' = [op |-> "construct", inst |-> i, method |-> method,
                params |-> EmptyDict]
    /\ UNCHANGED <<timeFormat, geo, ret>>

\* adjust(params): self.settings.update(params)
adjust(st, params) == update(st, params)

\* setMethod(method): the settings it leaves
setMethodSettings(st, ms, method) ==
    IF method \in DOMAIN ms THEN adjust(st, ms[method]) ELSE st

\* setMethod(method): the calcMethod it leaves
setMethodCalc(cur, ms, method) ==
    IF method \in DOMAIN ms THEN method ELSE cur

SetMethod(i, method) ==
    /\ i \in alive
    /\ settings' = setMethodSettings(settings, methods, method)
    /\ calcMethod' = [calcMethod EXCEPT ![i] = setMethodCalc(@, methods, method)]
    /\ raised' = "none"
    /\ last' = [op |-> "setMethod", inst |-> i, method |-> method,
                params |-> EmptyDict]
    /\ ret' = [ret EXCEPT ![i] = NoRet]
    /\ UNCHANGED <<methods, offset, alive, timeFormat, geo>>

Adjust(i, params) ==
    /\ i \in alive
    /\ settings' = adjust(settings, params)
    /\ raised' = "none"
    /\ last' = [op |-> "adjust", inst |-> i, method |-> "",
                params |-> params]
    /\ ret' = [ret EXCEPT ![i] = NoRet]
    /\ UNCHANGED <<methods, offset, alive, calcMethod, timeFormat, geo>>

\* the attributes an instance can read: those of the class and its own
instanceAttrs ==
    {"timeNames", "methods", "defaultParams", "calcMethod", "settings",
     "timeFormat", "timeSuffixes", "invalidTime", "numIterations", "offset",
     "lat", "lng", "elv", "timeZone", "jDate"}

\* tune(timeOffsets): self.offsets.update(timeOffsets); the attribute read is
\* `offsets`
tuneAttr == "offsets"

tuneRaises == IF tuneAttr \in instanceAttrs THEN "none" ELSE "AttributeError"

tuneOffset(off, timeOffsets) ==
    IF tuneRaises = "none" THEN update(off, timeOffsets) ELSE off

Tune(i, timeOffsets) ==
    /\ i \in alive
    /\ offset' = tuneOffset(offset, timeOffsets)
    /\ raised' = tuneRaises
    /\ last' = [op |-> "tune", inst |-> i, method |-> "",
                params |-> timeOffsets]
    /\ ret' = [ret EXCEPT ![i] = NoRet]
    /\ UNCHANGED <<methods, settings, alive, calcMethod, timeFormat, geo>>

getMethod(i) == calcMethod[i]
getSettings(i) == settings
getOffsets(i) == offset
getDefaults(i) == methods

------------------------------------------------------------------------------
(* Floats holding times *)

\* quanta to the second: the resolution kept below 2^-6 h
Resolution == 4

Second == Resolution
Minute == 60 * Second
Hour   == 60 * Minute

\* 2^-6 h: from here up a double has fewer fraction bits, and the model keeps
\* whole seconds
Threshold == Hour \div 64

NaN    == [nan |-> TRUE, v |-> 0]
Fin(v) == [nan |-> FALSE, v |-> v]
isnan(t) == t.nan

abs(x) == IF x < 0 THEN 0 - x ELSE x

\* IEEE-754 round-to-nearest, ties to even, of an exact result: below
\* Threshold every quantum is a double, from Threshold up only whole seconds
FRound(v) ==
    IF abs(v) < Threshold THEN v
    ELSE LET lo == (v \div Second) * Second
             r  == v - lo
         IN  IF 2 * r < Second THEN lo
             ELSE IF 2 * r > Second THEN lo + Second
             ELSE IF (lo \div Second) % 2 = 0 THEN lo ELSE lo + Second

Representable(v) == FRound(v) = v

fadd(a, b) == IF a.nan \/ b.nan THEN NaN ELSE Fin(FRound(a.v + b.v))
fsub(a, b) == IF a.nan \/ b.nan THEN NaN ELSE Fin(FRound(a.v - b.v))
\* a * (num / den)
fscale(a, num, den) == IF a.nan THEN NaN ELSE Fin(FRound((a.v * num) \div den))
\* a > b: False when either is NaN
fgt(a, b) == ~a.nan /\ ~b.nan /\ a.v > b.v

\* lines 373-377: fix(a, mode), mode in quanta
fix(a, mode) ==
    IF isnan(a) THEN a
    ELSE LET r == FRound(a.v - mode * (a.v \div mode))
         IN  IF r < 0 THEN Fin(FRound(r + mode)) ELSE Fin(r)

fixhour(hour) == fix(hour, 24 * Hour)

timeDiff(time1, time2) == fixhour(fsub(time2, time1))

------------------------------------------------------------------------------
(* Strings *)

Digit == <<"0","1","2","3","4","5","6","7","8","9">>
IsDigit(c) == \E d \in 1..10 : Digit[d] = c
DigitVal(c) == (CHOOSE d \in 1..10 : Digit[d] = c) - 1

RECURSIVE decimal(_)
\* "%d" of n >= 0
decimal(n) == IF n < 10 THEN <<Digit[n + 1]>>
              ELSE decimal(n \div 10) \o <<Digit[(n % 10) + 1]>>

\* "%02d" of n >= 0
decimal02(n) == IF n < 10 THEN <<"0">> \o decimal(n) ELSE decimal(n)

\* str(x) of a number held in tenths: 18 -> '18', 19.5 -> '19.5'
numStr(n) ==
    IF n % 10 = 0 THEN decimal(n \div 10)
    ELSE decimal(n \div 10) \o <<".">> \o decimal(n % 10)

\* s.find(pat): the first index (from 0) where pat occurs in s, else -1
firstOf(hits) ==
    IF hits = {} THEN 0 - 1
    ELSE (CHOOSE p \in hits : \A q \in hits : p <= q) - 1

find(s, pat) ==
    firstOf({p \in 1..(Len(s) - Len(pat) + 1) :
                \A q \in 1..Len(pat) : s[p + q - 1] = pat[q]})

\* re.split('[^0-9.+-]', s, 1)[0]: s up to its first character outside the class
InClass(c) == IsDigit(c) \/ c \in {".", "+", "-"}

splitAt(s, stop) == IF stop < 0 THEN s ELSE SubSeq(s, 1, stop)

leadingToken(s) == splitAt(s, firstOf({p \in 1..Len(s) : ~InClass(s[p])}))

RECURSIVE digitsVal(_)
digitsVal(s) == IF s = <<>> THEN 0
                ELSE 10 * digitsVal(SubSeq(s, 1, Len(s) - 1)) + DigitVal(s[Len(s)])

\* float(val) in tenths, for val of the shape digits['.'digit]
floatAt(val, dot) ==
    IF dot < 0 THEN 10 * digitsVal(val)
    ELSE 10 * digitsVal(SubSeq(val, 1, dot)) + digitsVal(SubSeq(val, dot + 2, dot + 2))

floatOf(val) == floatAt(val, find(val, <<".">>))

\* lines 348-350: eval(st), in tenths
floatOrZero(val) == IF val # <<>> THEN floatOf(val) ELSE 0

eval(st) == floatOrZero(leadingToken(IF st.k = "str" THEN st.s ELSE numStr(st.n)))

\* lines 353-354
isMin(arg) == arg.k = "str" /\ find(arg.s, <<"m","i","n">>) > 0 - 1

------------------------------------------------------------------------------
(* The sun.  sin, cos, arccos, arctan2 and sqrt are not expressible; the    *)
(* three tables hold what lines 196-209, 182-183 and 191 compute for the    *)
(* dates, places and angles of the calls below, to the second and to the    *)
(* millidegree.  jd counts 1/360 day, decl microdegrees, angles             *)
(* millidegrees, eqt and the hour angle seconds (-1: math domain error).    *)

sunPositionTable ==
       (885716815 :> <<-21253666, -543>>)
    @@ (885716830 :> <<-21246208, -544>>)
    @@ (885716875 :> <<-21223762, -546>>)
    @@ (885716890 :> <<-21216256, -547>>)
    @@ (885716895 :> <<-21213752, -548>>)
    @@ (885716910 :> <<-21206230, -548>>)
    @@ (885716920 :> <<-21201209, -549>>)
    @@ (885716935 :> <<-21193668, -550>>)
    @@ (885716980 :> <<-21170975, -553>>)
    @@ (885716995 :> <<-21163387, -554>>)
    @@ (885717000 :> <<-21160855, -554>>)
    @@ (885717010 :> <<-21155787, -554>>)
    @@ (885717015 :> <<-21153251, -555>>)
    @@ (885717070 :> <<-21125270, -558>>)
    @@ (885717090 :> <<-21115057, -559>>)
    @@ (885773695 :> <<23435735, -109>>)
    @@ (885773710 :> <<23435695, -109>>)
    @@ (885773755 :> <<23435504, -111>>)
    @@ (885773770 :> <<23435416, -112>>)
    @@ (885773775 :> <<23435384, -112>>)
    @@ (885773790 :> <<23435281, -112>>)
    @@ (885773800 :> <<23435205, -113>>)
    @@ (885773815 :> <<23435082, -113>>)
    @@ (885773860 :> <<23434639, -115>>)
    @@ (885773875 :> <<23434468, -115>>)
    @@ (885773880 :> <<23434408, -116>>)
    @@ (885773890 :> <<23434285, -116>>)
    @@ (885773895 :> <<23434221, -116>>)
    @@ (885773950 :> <<23433432, -118>>)
    @@ (885773970 :> <<23433105, -119>>)

hourAngleTable ==
       (<<-39329, 23435082, 11>> :> 12414)
    @@ (<<-32922, 23434221, 52>> :> 15831)
    @@ (<<-31536, -21193668, 11>> :> 11927)
    @@ (<<-25935, 23434468, 70>> :> 18792)
    @@ (<<-24244, 23435082, 11>> :> 16364)
    @@ (<<-21455, 23434221, 52>> :> 20323)
    @@ (<<-20821, -21193668, 11>> :> 14969)
    @@ (<<-18118, 23434468, 70>> :> 24368)
    @@ (<<-13085, -21153251, 52>> :> 6524)
    @@ (<<-10680, -21153251, 52>> :> 8427)
    @@ (<<0, -21155787, 11>> :> 20565)
    @@ (<<0, -21125270, 70>> :> -1)
    @@ (<<0, -21115057, 52>> :> 14491)
    @@ (<<0, 23433105, 52>> :> 29687)
    @@ (<<0, 23433432, 70>> :> -1)
    @@ (<<0, 23434285, 11>> :> 22760)
    @@ (<<833, -21246208, 11>> :> 20779)
    @@ (<<833, -21216256, 70>> :> -1)
    @@ (<<833, -21206230, 52>> :> 14852)
    @@ (<<833, -21155787, 11>> :> 20784)
    @@ (<<833, -21125270, 70>> :> -1)
    @@ (<<833, -21115057, 52>> :> 14888)
    @@ (<<833, 23433105, 52>> :> 30116)
    @@ (<<833, 23433432, 70>> :> -1)
    @@ (<<833, 23434285, 11>> :> 22983)
    @@ (<<833, 23435281, 52>> :> 30117)
    @@ (<<833, 23435416, 70>> :> -1)
    @@ (<<833, 23435695, 11>> :> 22983)
    @@ (<<1180, -21246208, 11>> :> 20870)
    @@ (<<1180, -21155787, 11>> :> 20875)
    @@ (<<1180, 23434285, 11>> :> 23076)
    @@ (<<1180, 23435695, 11>> :> 23076)
    @@ (<<1187, -21163387, 70>> :> 706)
    @@ (<<1213, -21163387, 70>> :> 1010)
    @@ (<<4000, -21155787, 11>> :> 21613)
    @@ (<<4000, -21125270, 70>> :> 7812)
    @@ (<<4000, -21115057, 52>> :> 16347)
    @@ (<<4000, 23433105, 52>> :> 31850)
    @@ (<<4000, 23433432, 70>> :> -1)
    @@ (<<4000, 23434285, 11>> :> 23833)
    @@ (<<4500, -21155787, 11>> :> 21744)
    @@ (<<4500, -21125270, 70>> :> 8484)
    @@ (<<4500, -21115057, 52>> :> 16570)
    @@ (<<4500, 23433105, 52>> :> 32141)
    @@ (<<4500, 23433432, 70>> :> -1)
    @@ (<<4500, 23434285, 11>> :> 23968)
    @@ (<<14000, -21155787, 11>> :> 24215)
    @@ (<<14000, -21125270, 70>> :> 17363)
    @@ (<<14000, -21115057, 52>> :> 20595)
    @@ (<<14000, 23433105, 52>> :> 40663)
    @@ (<<14000, 23433432, 70>> :> -1)
    @@ (<<14000, 23434285, 11>> :> 26559)
    @@ (<<15000, -21253666, 11>> :> 24471)
    @@ (<<15000, -21223762, 70>> :> 18052)
    @@ (<<15000, -21213752, 52>> :> 20969)
    @@ (<<15000, -21155787, 11>> :> 24474)
    @@ (<<15000, -21125270, 70>> :> 18121)
    @@ (<<15000, -21115057, 52>> :> 21000)
    @@ (<<15000, 23433105, 52>> :> -1)
    @@ (<<15000, 23433432, 70>> :> -1)
    @@ (<<15000, 23434285, 11>> :> 26836)
    @@ (<<15000, 23435384, 52>> :> -1)
    @@ (<<15000, 23435504, 70>> :> -1)
    @@ (<<15000, 23435735, 11>> :> 26836)
    @@ (<<16000, -21253666, 11>> :> 24730)
    @@ (<<16000, -21223762, 70>> :> 18797)
    @@ (<<16000, -21213752, 52>> :> 21372)
    @@ (<<16000, 23435384, 52>> :> -1)
    @@ (<<16000, 23435504, 70>> :> -1)
    @@ (<<16000, 23435735, 11>> :> 27114)
    @@ (<<17000, -21155787, 11>> :> 24992)
    @@ (<<17000, -21125270, 70>> :> 19597)
    @@ (<<17000, -21115057, 52>> :> 21803)
    @@ (<<17000, 23433105, 52>> :> -1)
    @@ (<<17000, 23433432, 70>> :> -1)
    @@ (<<17000, 23434285, 11>> :> 27392)
    @@ (<<17500, -21155787, 11>> :> 25121)
    @@ (<<17500, -21125270, 70>> :> 19960)
    @@ (<<17500, -21115057, 52>> :> 22003)
    @@ (<<17500, 23433105, 52>> :> -1)
    @@ (<<17500, 23433432, 70>> :> -1)
    @@ (<<17500, 23434285, 11>> :> 27532)
    @@ (<<17700, -21253666, 11>> :> 25170)
    @@ (<<17700, -21223762, 70>> :> 20038)
    @@ (<<17700, -21213752, 52>> :> 22053)
    @@ (<<17700, 23435384, 52>> :> -1)
    @@ (<<17700, 23435504, 70>> :> -1)
    @@ (<<17700, 23435735, 11>> :> 27588)
    @@ (<<18000, -21253666, 11>> :> 25248)
    @@ (<<18000, -21223762, 70>> :> 20254)
    @@ (<<18000, -21213752, 52>> :> 22172)
    @@ (<<18000, -21155787, 11>> :> 25250)
    @@ (<<18000, -21125270, 70>> :> 20320)
    @@ (<<18000, -21115057, 52>> :> 22202)
    @@ (<<18000, 23433105, 52>> :> -1)
    @@ (<<18000, 23433432, 70>> :> -1)
    @@ (<<18000, 23434285, 11>> :> 27672)
    @@ (<<18000, 23435384, 52>> :> -1)
    @@ (<<18000, 23435504, 70>> :> -1)
    @@ (<<18000, 23435735, 11>> :> 27672)
    @@ (<<18500, -21253666, 11>> :> 25377)
    @@ (<<18500, -21223762, 70>> :> 20613)
    @@ (<<18500, -21213752, 52>> :> 22371)
    @@ (<<18500, 23435384, 52>> :> -1)
    @@ (<<18500, 23435504, 70>> :> -1)
    @@ (<<18500, 23435735, 11>> :> 27812)
    @@ (<<19500, -21253666, 11>> :> 25635)
    @@ (<<19500, -21223762, 70>> :> 21325)
    @@ (<<19500, -21213752, 52>> :> 22767)
    @@ (<<19500, 23435384, 52>> :> -1)
    @@ (<<19500, 23435504, 70>> :> -1)
    @@ (<<19500, 23435735, 11>> :> 28094)
    @@ (<<20000, -21253666, 11>> :> 25765)
    @@ (<<20000, -21223762, 70>> :> 21679)
    @@ (<<20000, -21213752, 52>> :> 22965)
    @@ (<<20000, 23435384, 52>> :> -1)
    @@ (<<20000, 23435504, 70>> :> -1)
    @@ (<<20000, 23435735, 11>> :> 28235)
    @@ (<<90000, -21155787, 11>> :> -1)
    @@ (<<90000, -21125270, 70>> :> -1)
    @@ (<<90000, -21115057, 52>> :> -1)
    @@ (<<90000, 23433105, 52>> :> -1)
    @@ (<<90000, 23433432, 70>> :> -1)
    @@ (<<90000, 23434285, 11>> :> -1)

asrAngleTable ==
       (<<10, 11, -21193668>> :> -31536)
    @@ (<<10, 11, 23435082>> :> -39329)
    @@ (<<10, 52, -21153251>> :> -13085)
    @@ (<<10, 52, 23434221>> :> -32922)
    @@ (<<10, 70, -21163387>> :> 1187)
    @@ (<<10, 70, 23434468>> :> -25935)
    @@ (<<20, 11, -21193668>> :> -20821)
    @@ (<<20, 11, 23435082>> :> -24244)
    @@ (<<20, 52, -21153251>> :> -10680)
    @@ (<<20, 52, 23434221>> :> -21455)
    @@ (<<20, 70, -21163387>> :> 1213)
    @@ (<<20, 70, 23434468>> :> -18118)

\* lines 213-219: julian(year, month, day), in 1/360 day
julian(year, month, day) ==
    LET y == IF month <= 2 THEN year - 1 ELSE year
        m == IF month <= 2 THEN month + 12 ELSE month
        A == y \div 100
        B == 2 - A + (A \div 4)
    IN  ((1461 * (y + 4716)) \div 4 + (306001 * (m + 1)) \div 10000 + day + B) * 360
        - 548820

\* lines 196-209: (decl, eqt)
sunPosition(jd) == sunPositionTable[jd]

\* lines 173-175: midDay(time) of an instance with fields g
midDay(g, time) ==
    LET eqt == sunPosition(g.jDate + time)[2]
    IN  fixhour(fsub(Fin(12 * Hour), Fin(eqt * Second)))

\* lines 178-186: sunAngleTime(angle, time, direction), angle in millidegrees
sunAngleTime(g, angle, time, direction) ==
    LET decl == sunPosition(g.jDate + time)[1]
        noon == midDay(g, time)
        t    == hourAngleTable[<<angle, decl, g.lat>>]
    IN  IF t < 0 THEN NaN
        ELSE IF direction = "ccw" THEN fsub(noon, Fin(t * Second))
        ELSE fadd(noon, Fin(t * Second))

\* lines 189-192: asrTime(factor, time), factor in tenths
asrTime(g, factor, time) ==
    LET decl  == sunPosition(g.jDate + time)[1]
        angle == asrAngleTable[<<factor, g.lat, decl>>]
    IN  sunAngleTime(g, angle, time, "cw")

\* lines 285-287: asrFactor(asrParam), in tenths
asrFactor(asrParam) ==
    IF asrParam = Str(s_Standard) THEN 10
    ELSE IF asrParam = Str(s_Hanafi) THEN 20
    ELSE eval(asrParam)

\* sqrt of a perfect square
sqrt(n) == CHOOSE r \in 0..n : r * r = n

\* lines 290-292: riseSetAngle(elevation), in millidegrees
riseSetAngle(elevation) == 833 + (347 * sqrt(elevation)) \div 10

\* lines 335-338: an hour of the day as a day portion, in 1/360 day
dayPortion(hours) == hours * 15

\* tenths of a degree in millidegrees
milli(tenths) == tenths * 100

\* tenths of a minute as a time: x / 60.0
minutesOf(tenths) == Fin((tenths * Minute) \div 10)

------------------------------------------------------------------------------
(* Formatting *)

\* a value returned for one event: a str, or the float itself
Text(s) == [k |-> "str", s |-> s, t |-> NaN]
Flt(t)  == [k |-> "float", s |-> <<>>, t |-> t]

timeSuffixes == <<<<"a","m">>, <<"p","m">>>>

\* getFormattedTime with the test for 'Float' ahead of the test for NaN
getFormattedTimeFloatFirst(time, format) ==
    IF format = "Float" THEN Flt(time)
    ELSE IF isnan(time) THEN Text(invalidTime)
    ELSE Text(<<"0","0",":","0","0">>)

\* lines 153-167: getFormattedTime(time, format), suffixes left to default
\* lines 161-166: suffix and formattedTime from hours and minutes
formatHoursMinutes(format, hours, minutes) ==
    Text((IF format = "24h"
          THEN decimal02(hours) \o <<":">> \o decimal02(minutes)
          ELSE decimal(((hours + 11) % 12) + 1) \o <<":">> \o decimal02(minutes))
         \o (IF format = "12h" THEN timeSuffixes[IF hours < 12 THEN 1 ELSE 2]
             ELSE <<>>))

\* lines 159-160: hours = floor(time), minutes = floor((time - hours) * 60)
formatRounded(format, t, hours) ==
    formatHoursMinutes(format, hours, ((t - hours * Hour) * 60) \div Hour)

getFormattedTime(time, format) ==
    IF isnan(time) THEN Text(invalidTime)
    ELSE IF format = "Float" THEN Flt(time)
    ELSE formatRounded(format, fixhour(fadd(time, Fin(Minute \div 2))).v,
                       fixhour(fadd(time, Fin(Minute \div 2))).v \div Hour)

------------------------------------------------------------------------------
(* Computation of the times *)

solved == {"imsak", "fajr", "sunrise", "dhuhr", "asr", "sunset", "maghrib", "isha"}
allNames == {timeNames[x] : x \in 1..Len(timeNames)}

\* lines 245-248: the guesses, in hours
guess == [imsak |-> 5, fajr |-> 5, sunrise |-> 6, dhuhr |-> 12,
          asr |-> 13, sunset |-> 18, maghrib |-> 18, isha |-> 18]

\* lines 226-241: computePrayerTimes(times), times in hours
computePrayerTimes(g, params, times) ==
    LET tm == [n \in DOMAIN times |-> dayPortion(times[n])]
    IN  [imsak   |-> sunAngleTime(g, milli(eval(params["imsak"])), tm["imsak"], "ccw"),
         fajr    |-> sunAngleTime(g, milli(eval(params["fajr"])), tm["fajr"], "ccw"),
         sunrise |-> sunAngleTime(g, riseSetAngle(g.elv), tm["sunrise"], "ccw"),
         dhuhr   |-> midDay(g, tm["dhuhr"]),
         asr     |-> asrTime(g, asrFactor(params["asr"]), tm["asr"]),
         sunset  |-> sunAngleTime(g, riseSetAngle(g.elv), tm["sunset"], "cw"),
         maghrib |-> sunAngleTime(g, milli(eval(params["maghrib"])), tm["maghrib"], "cw"),
         isha    |-> sunAngleTime(g, milli(eval(params["isha"])), tm["isha"], "cw")]

\* lines 325-332: nightPortion(angle, night), angle in tenths
nightPortion(params, angle, night) ==
    LET method == params["highLats"]
    IN  IF method = Str(s_OneSeventh) THEN fscale(night, 1, 7)
        ELSE IF method = Str(s_AngleBased) THEN fscale(night, angle, 600)
        ELSE fscale(night, 1, 2)

\* adjustHLTime without the isnan test of line 320
adjustHLTimeNoNaNTest(params, time, base, angle, night, direction) ==
    LET portion == nightPortion(params, angle, night)
        diff    == IF direction = "ccw" THEN timeDiff(time, base)
                   ELSE timeDiff(base, time)
    IN  IF fgt(diff, portion)
        THEN (IF direction = "ccw" THEN fsub(base, portion) ELSE fadd(base, portion))
        ELSE time

\* lines 317-322: adjustHLTime(time, base, angle, night, direction)
adjustHLTime(params, time, base, angle, night, direction) ==
    LET portion == nightPortion(params, angle, night)
        diff    == IF direction = "ccw" THEN timeDiff(time, base)
                   ELSE timeDiff(base, time)
    IN  IF isnan(time) \/ fgt(diff, portion)
        THEN (IF direction = "ccw" THEN fsub(base, portion) ELSE fadd(base, portion))
        ELSE time

\* lines 307-314: adjustHighLats(times)
\* lines 310-313: the four assignments; none reads what another writes
adjustHighLatsNight(params, times, nightTime) ==
    [times EXCEPT
        !["imsak"]   = adjustHLTime(params, @, times["sunrise"],
                                    eval(params["imsak"]), nightTime, "ccw"),
        !["fajr"]    = adjustHLTime(params, @, times["sunrise"],
                                    eval(params["fajr"]), nightTime, "ccw"),
        !["isha"]    = adjustHLTime(params, @, times["sunset"],
                                    eval(params["isha"]), nightTime, "cw"),
        !["maghrib"] = adjustHLTime(params, @, times["sunset"],
                                    eval(params["maghrib"]), nightTime, "cw")]

adjustHighLats(params, times) ==
    adjustHighLatsNight(params, times, timeDiff(times["sunset"], times["sunrise"]))

\* line 273: imsak given in minutes
imsakByMinutes(fajr, mins) == fsub(fajr, minutesOf(mins))
\* line 276: maghrib given in minutes
maghribByMinutes(sunset, mins) == fsub(sunset, minutesOf(mins))
\* line 279: isha given in minutes
ishaByMinutes(maghrib, mins) == fsub(maghrib, minutesOf(mins))

\* lines 265-266: times[t] += self.timeZone - self.lng / 15.0
adjustZone(times, tzAdjust) ==
    [imsak   |-> fadd(times["imsak"], tzAdjust),
     fajr    |-> fadd(times["fajr"], tzAdjust),
     sunrise |-> fadd(times["sunrise"], tzAdjust),
     dhuhr   |-> fadd(times["dhuhr"], tzAdjust),
     asr     |-> fadd(times["asr"], tzAdjust),
     sunset  |-> fadd(times["sunset"], tzAdjust),
     maghrib |-> fadd(times["maghrib"], tzAdjust),
     isha    |-> fadd(times["isha"], tzAdjust)]

\* lines 268-269
adjustIfHighLats(params, times) ==
    IF params["highLats"] # Str(s_None) THEN adjustHighLats(params, times) ELSE times

\* lines 271-273
adjustImsak(params, times) ==
    IF isMin(params["imsak"])
    THEN [times EXCEPT !["imsak"] = imsakByMinutes(times["fajr"], eval(params["imsak"]))]
    ELSE times

\* lines 275-276
adjustMaghrib(params, times) ==
    IF isMin(params["maghrib"])
    THEN [times EXCEPT !["maghrib"] = maghribByMinutes(times["sunset"], eval(params["maghrib"]))]
    ELSE times

\* lines 278-279
adjustIsha(params, times) ==
    IF isMin(params["isha"])
    THEN [times EXCEPT !["isha"] = ishaByMinutes(times["maghrib"], eval(params["isha"]))]
    ELSE times

\* line 280
adjustDhuhr(params, times) ==
    [times EXCEPT !["dhuhr"] = fadd(@, minutesOf(eval(params["dhuhr"])))]

\* lines 263-282: adjustTimes(times)
adjustTimes(g, params, times) ==
    adjustDhuhr(params,
      adjustIsha(params,
        adjustMaghrib(params,
          adjustImsak(params,
            adjustIfHighLats(params,
              adjustZone(times, fsub(g.timeZone, Fin((g.lng * Hour) \div 15))))))))

\* lines 253-257: the midnight time
midnightTime(params, times) ==
    IF params["midnight"] = Str(s_Jafari)
    THEN fadd(times["sunset"], fscale(timeDiff(times["sunset"], times["fajr"]), 1, 2))
    ELSE fadd(times["sunset"], fscale(timeDiff(times["sunset"], times["sunrise"]), 1, 2))

\* lines 295-298: tuneTimes(times); the offsets are minutes
tuneTimes(off, times) ==
    [imsak    |-> fadd(times["imsak"], Fin(off["imsak"] * Minute)),
     fajr     |-> fadd(times["fajr"], Fin(off["fajr"] * Minute)),
     sunrise  |-> fadd(times["sunrise"], Fin(off["sunrise"] * Minute)),
     dhuhr    |-> fadd(times["dhuhr"], Fin(off["dhuhr"] * Minute)),
     asr      |-> fadd(times["asr"], Fin(off["asr"] * Minute)),
     sunset   |-> fadd(times["sunset"], Fin(off["sunset"] * Minute)),
     maghrib  |-> fadd(times["maghrib"], Fin(off["maghrib"] * Minute)),
     isha     |-> fadd(times["isha"], Fin(off["isha"] * Minute)),
     midnight |-> fadd(times["midnight"], Fin(off["midnight"] * Minute))]

\* lines 301-304: modifyFormats(times)
modifyFormats(format, times) ==
    [imsak    |-> getFormattedTime(times["imsak"], format),
     fajr     |-> getFormattedTime(times["fajr"], format),
     sunrise  |-> getFormattedTime(times["sunrise"], format),
     dhuhr    |-> getFormattedTime(times["dhuhr"], format),
     asr      |-> getFormattedTime(times["asr"], format),
     sunset   |-> getFormattedTime(times["sunset"], format),
     maghrib  |-> getFormattedTime(times["maghrib"], format),
     isha     |-> getFormattedTime(times["isha"], format),
     midnight |-> getFormattedTime(times["midnight"], format)]

\* lines 253-257: times['midnight'] = ...
withMidnight(params, times) ==
    [name \in allNames |->
        IF name = "midnight" THEN midnightTime(params, times) ELSE times[name]]

\* lines 259-260: tuneTimes, then modifyFormats
computeTuned(format, raw, adjusted, tuned) ==
    [raw |-> raw, adjusted |-> adjusted, tuned |-> tuned,
     out |-> modifyFormats(format, tuned)]

\* lines 252-259: adjustTimes, the midnight, tuneTimes
computeAdjusted(params, off, format, raw, adjusted) ==
    computeTuned(format, raw, adjusted, tuneTimes(off, withMidnight(params, adjusted)))

\* lines 249-252: the solver's times, then adjustTimes
computeRaw(g, params, off, format, raw) ==
    computeAdjusted(params, off, format, raw, adjustTimes(g, params, raw))

\* lines 244-260: computeTimes(), with what it passes through on the way
computeTimes(g, params, off, format) ==
    computeRaw(g, params, off, format, computePrayerTimes(g, params, guess))

\* getTimes leaving self.elv as it was when coords carries no elevation
newGeoKeepElv(old, date, coords, timezone, dst) ==
    [lat |-> coords[1], lng |-> coords[2],
     elv |-> IF Len(coords) > 2 THEN coords[3] ELSE old.elv,
     timeZone |-> fadd(timezone, Fin(IF dst THEN Hour ELSE 0)),
     jDate |-> julian(date[1], date[2], date[3]) - coords[2],
     set |-> TRUE]

\* lines 141-143, 148-149: the fields getTimes stores in the instance
newGeo(old, date, coords, timezone, dst) ==
    [lat |-> coords[1], lng |-> coords[2],
     elv |-> IF Len(coords) > 2 THEN coords[3] ELSE 0,
     timeZone |-> fadd(timezone, Fin(IF dst THEN Hour ELSE 0)),
     jDate |-> julian(date[1], date[2], date[3]) - coords[2],
     set |-> TRUE]

\* lines 144-145: the format getTimes leaves in self.timeFormat; "None" is None
newFormat(old, format) == IF format # "None" THEN format ELSE old

\* getTimes(date, coords, timezone, dst, format)
GetTimes(i, date, coords, timezone, dst, format) ==
    /\ i \in alive
    /\ geo' = [geo EXCEPT ![i] = newGeo(@, date, coords, timezone, dst)]
    /\ timeFormat' = [timeFormat EXCEPT ![i] = newFormat(@, format)]
    /\ ret' = [ret EXCEPT ![i] =
                 [called |-> TRUE, op |-> "getTimes",
                  args |-> [date |-> date, coords |-> coords, timezone |-> timezone,
                            dst |-> dst, format |-> format],
                  settings |-> settings, offset |-> offset,
                  format |-> timeFormat'[i],
                  times |-> computeTimes(geo'[i], settings, offset, timeFormat'[i])]]
    /\ raised' = "none"
    /\ last' = [op |-> "getTimes", inst |-> i, method |-> "",
                params |-> EmptyDict]
    /\ UNCHANGED <<methods, settings, offset, alive, calcMethod>>

\* lines 413, 456: the caller's PT.timeFormat = format
SetTimeFormat(i, format) ==
    /\ i \in alive
    /\ timeFormat' = [timeFormat EXCEPT ![i] = format]
    /\ ret' = [ret EXCEPT ![i] = NoRet]
    /\ raised' = "none"
    /\ last' = [op |-> "timeFormat", inst |-> i, method |-> "",
                params |-> EmptyDict]
    /\ UNCHANGED <<methods, settings, offset, alive, calcMethod, geo>>

\* getFormattedTime(time, format) called on instance i
GetFormattedTime(i, time, format) ==
    /\ i \in alive
    /\ ret' = [ret EXCEPT ![i] =
                 [called |-> TRUE, op |-> "getFormattedTime",
                  time |-> time, format |-> format,
                  out |-> getFormattedTime(time, format)]]
    /\ raised' = "none"
    /\ last' = [op |-> "getFormattedTime", inst |-> i, method |-> "",
                params |-> EmptyDict]
    /\ UNCHANGED <<methods, settings, offset, alive, calcMethod, timeFormat, geo>>

------------------------------------------------------------------------------
Init ==
    /\ methods = methodsDecl
    /\ settings = settingsDecl
    /\ offset = EmptyDict
    /\ alive = {}
    /\ calcMethod = [i \in Instances |-> classCalcMethod]
    /\ timeFormat = [i \in Instances |-> classTimeFormat]
    /\ geo = [i \in Instances |-> NoGeo]
    /\ raised = "none"
    /\ last = NoCall
    /\ ret = [i \in Instances |-> NoRet]

Next ==
    \/ \E i \in Instances, m \in MethodArgs : Construct(i, m)
    \/ \E i \in Instances, m \in MethodArgs : SetMethod(i, m)
    \/ \E i \in Instances, p \in AdjustArgs : Adjust(i, p)
    \/ \E i \in Instances, p \in TuneArgs : Tune(i, p)

Spec == Init /\ [][Next]_vars

------------------------------------------------------------------------------
(* The calculator in use: one instance, any method and high-latitude        *)
(* policy, the times of a day at a place                                    *)

\* the state PrayTimes() leaves when the instances I are constructed
Built(I) ==
    LET ms == fillDefaults(methodsDecl)
        cm == chosenMethod(classCalcMethod, ms)
    IN  /\ methods = ms
        /\ settings = update(settingsDecl, ms[cm])
        /\ offset = [n \in allNames |-> 0]
        /\ alive = I
        /\ calcMethod = [i \in Instances |-> IF i \in I THEN cm ELSE classCalcMethod]
        /\ timeFormat = [i \in Instances |-> classTimeFormat]
        /\ geo = [i \in Instances |-> NoGeo]
        /\ raised = "none"
        /\ last = [op |-> "construct", inst |-> "A", method |-> classCalcMethod,
                   params |-> EmptyDict]
        /\ ret = [i \in Instances |-> NoRet]

Dates == {<<2024, 6, 21>>, <<2024, 1, 15>>}

\* coordinates (latitude, longitude[, elevation]) with the zone kept there
Places ==
    { [coords |-> <<11, 80>>,      timezone |-> Fin(330 * Minute)],
      [coords |-> <<11, 80, 100>>, timezone |-> Fin(330 * Minute)],
      [coords |-> <<52, 0>>,       timezone |-> Fin(0)],
      [coords |-> <<70, 20>>,      timezone |-> Fin(120 * Minute)] }

Formats == {"24h", "12h", "Float"}

\* the format argument: left out ("None"), or one of the formats
FormatArgs == {"None", "12h", "Float"}

HighLatsArgs ==
    { [highLats |-> Str(s_NightMiddle)], [highLats |-> Str(s_OneSeventh)],
      [highLats |-> Str(s_AngleBased)],  [highLats |-> Str(s_None)] }

AsrArgs == { [asr |-> Str(s_Standard)], [asr |-> Str(s_Hanafi)] }

DayPlaces == {pl \in Places : Len(pl.coords) = 2}

InitDay == Built({"A"})

NextDay ==
    \/ \E m \in MethodNames : SetMethod("A", m)
    \/ \E p \in HighLatsArgs : Adjust("A", p)
    \/ \E d \in Dates, pl \in DayPlaces, f \in FormatArgs :
          GetTimes("A", d, pl.coords, pl.timezone, FALSE, f)
    \/ \E t \in {NaN, Fin(13 * Hour + 30 * Minute)}, f \in Formats :
          GetFormattedTime("A", t, f)

SpecDay == InitDay /\ [][NextDay]_vars

------------------------------------------------------------------------------
(* Two instances called in turn, as the page does: asr switched between     *)
(* the two conventions, the times of a day asked with or without a format   *)

\* (coordinates, zone, dst) of the calls: without and with an elevation, and
\* with daylight saving
CallArgs ==
    { [coords |-> <<11, 80>>,      timezone |-> Fin(330 * Minute), dst |-> FALSE],
      [coords |-> <<11, 80, 100>>, timezone |-> Fin(330 * Minute), dst |-> FALSE],
      [coords |-> <<11, 80>>,      timezone |-> Fin(330 * Minute), dst |-> TRUE] }
CallDates == {<<2024, 6, 21>>}
CallFormats == {"None", "Float"}

InitCalls == Built(Instances)

NextCalls ==
    \/ \E i \in Instances, p \in AsrArgs : Adjust(i, p)
    \/ \E i \in Instances : SetTimeFormat(i, "12h")
    \/ \E i \in Instances, d \in CallDates, a \in CallArgs, f \in CallFormats :
          GetTimes(i, d, a.coords, a.timezone, a.dst, f)

SpecCalls == InitCalls /\ [][NextCalls]_vars

------------------------------------------------------------------------------
(* getFormattedTime on its own *)

\* hours, minutes and seconds the formatted times are taken from
FormatHours   == {0 - 25, 0 - 1, 0, 11, 12, 13, 23, 24, 47}
FormatMinutes == {0, 29, 30, 59}
FormatSeconds == {0, 29, 30, 59}

\* the doubles next to -0.5/60 h and next to 0 on either side
FormatNearZero == {0 - (Minute \div 2) - 1, 0 - (Minute \div 2) + 1, 0 - 1, 1}

FormatInputs ==
    {NaN}
    \cup {Fin(h * Hour + m * Minute + sec * Second) :
             h \in FormatHours, m \in FormatMinutes, sec \in FormatSeconds}
    \cup {Fin(q) : q \in FormatNearZero}

InitFormat == Built({"A"})

NextFormat ==
    \E t \in FormatInputs, f \in Formats : GetFormattedTime("A", t, f)

SpecFormat == InitFormat /\ [][NextFormat]_vars

------------------------------------------------------------------------------
(* Claims *)

methodKeys == {"fajr", "isha", "maghrib", "midnight"}
globalKeys == {"imsak", "dhuhr", "asr", "highLats"}

(* C1: right after PrayTimes(M) for a recognized M, getMethod() is M and     *)
(* getSettings() holds M's registry values of fajr, isha, maghrib, midnight. *)
C1_ConstructorSeedsFromMethod ==
    (last.op = "construct" /\ last.method \in MethodNames) =>
        /\ getMethod(last.inst) = last.method
        /\ \A k \in methodKeys :
              /\ k \in DOMAIN getSettings(last.inst)
              /\ getSettings(last.inst)[k] = getDefaults(last.inst)[last.method][k]

(* C2: tune(p) returns without raising and leaves the offsets as the         *)
(* key-wise merge of p into the offsets before the call.                     *)
C2_TuneMergesOffsets ==
    [][last'.op = "tune" =>
          (raised' = "none" /\ offset' = update(offset, last'.params))]_vars

(* C3: no call on one instance, and no construction of another, changes      *)
(* what getSettings() and getOffsets() of an instance return.                *)
C3_InstancesShareNothing ==
    [][\A j \in Instances :
          (j \in alive /\ last'.inst # j) =>
              (getSettings(j)' = getSettings(j) /\ getOffsets(j)' = getOffsets(j))]_vars

(* C4: a method name that is not in the registry, given to the constructor   *)
(* or to setMethod, raises nothing and leaves MWL active with fajr 18 and    *)
(* isha 17.                                                                  *)
C4_UnknownMethodFallsBackToMWL ==
    (last.op \in {"construct", "setMethod"} /\ last.method \notin MethodNames) =>
        /\ raised = "none"
        /\ getMethod(last.inst) = "MWL"
        /\ getSettings(last.inst)["fajr"] = Num(180)
        /\ getSettings(last.inst)["isha"] = Num(170)

C5_SameCall(i, j) ==
    /\ ret[i].called /\ ret[i].op = "getTimes"
    /\ ret[j].called /\ ret[j].op = "getTimes"
    /\ ret[i].args = ret[j].args
    /\ ret[i].settings = ret[j].settings
    /\ ret[i].offset = ret[j].offset

(* C5 as claimed: two getTimes calls with the same arguments, under equal    *)
(* Settings and Offsets, return the same times whatever was called before.   *)
C5_GetTimesIsPure ==
    \A i, j \in Instances :
        C5_SameCall(i, j) => ret[i].times.out = ret[j].times.out

(* C5 as amended: they return the same times when also the format in effect  *)
(* is the same: the format argument, or with none given self.timeFormat.     *)
C5_GetTimesIsPureInTimeFormat ==
    \A i, j \in Instances :
        (C5_SameCall(i, j) /\ ret[i].format = ret[j].format) =>
            ret[i].times = ret[j].times

C5_Witness ==
    /\ C5_SameCall("A", "B")
    /\ ret["A"].args.format = "None" /\ Len(ret["A"].args.coords) = 2
    /\ ret["A"].format = "12h" /\ ret["B"].format = "12h"
    /\ ret["A"].settings["asr"] = Str(s_Hanafi)
    /\ ret["A"].times.out = ret["B"].times.out

hlPolicies == {Str(s_NightMiddle), Str(s_OneSeventh), Str(s_AngleBased)}
hlEvents == {"imsak", "fajr", "maghrib", "isha"}

C6_PolicySet(i) ==
    /\ ret[i].called /\ ret[i].op = "getTimes"
    /\ ret[i].settings["highLats"] \in hlPolicies

angleSolved(params) ==
    {"fajr", "sunrise", "dhuhr", "asr", "sunset"}
    \cup {n \in {"imsak", "maghrib", "isha"} : ~isMin(params[n])}

lt(a, b) == ~isnan(a) /\ ~isnan(b) /\ a.v < b.v
le(a, b) == ~isnan(a) /\ ~isnan(b) /\ a.v <= b.v

\* the condition of C7 on a getTimes call of instance i
C7_MidLatitude(i) ==
    LET r  == ret[i]
        p  == r.settings
        x  == r.times.raw
        tz == fsub(r.times.adjusted["sunrise"], x["sunrise"])
    IN  /\ r.called /\ r.op = "getTimes"
        /\ \E m \in MethodNames : \A k \in methodKeys : p[k] = methods[m][k]
        /\ \A k \in globalKeys : p[k] = settingsDecl[k]
        /\ \A n \in allNames : r.offset[n] = 0
        /\ \A n \in angleSolved(p) : ~isnan(x[n])
        /\ lt(x["fajr"], x["sunrise"]) /\ lt(x["sunrise"], x["dhuhr"])
        /\ lt(x["dhuhr"], x["asr"]) /\ lt(x["asr"], x["sunset"])
        /\ "isha" \in angleSolved(p) => lt(x["sunset"], x["isha"])
        /\ "maghrib" \in angleSolved(p) =>
              (le(x["sunset"], x["maghrib"]) /\ lt(x["maghrib"], x["isha"]))
        /\ \A n \in {"fajr", "isha", "maghrib"} \cap angleSolved(p) :
              r.times.adjusted[n] = fadd(x[n], tz)
        /\ lt(fadd(x["dhuhr"], minutesOf(eval(p["dhuhr"]))), x["asr"])

(* C7: for every recognized method with the default global settings and no   *)
(* offsets, at a mid-latitude place the times computeTimes produces satisfy  *)
(* imsak < fajr < sunrise < dhuhr < asr < sunset <= maghrib < isha.          *)
C7_TimesAreOrdered ==
    \A i \in Instances :
        C7_MidLatitude(i) =>
            LET t == ret[i].times.tuned
            IN  /\ lt(t["imsak"], t["fajr"]) /\ lt(t["fajr"], t["sunrise"])
                /\ lt(t["sunrise"], t["dhuhr"]) /\ lt(t["dhuhr"], t["asr"])
                /\ lt(t["asr"], t["sunset"]) /\ le(t["sunset"], t["maghrib"])
                /\ lt(t["maghrib"], t["isha"])

\* the event the midnight of a run is measured to
midnightAnchor(params) == IF params["midnight"] = Str(s_Jafari) THEN "fajr" ELSE "sunrise"

(* C8: getFormattedTime(NaN, f) is the sentinel for every format f; and in   *)
(* getTimes an event that is NaN after adjustTimes, and midnight when sunset *)
(* or its anchor is NaN, stays NaN through tuneTimes and is returned as the  *)
(* sentinel.                                                                 *)
C8_NaNIsReturnedAsSentinel ==
    \A i \in Instances :
        /\ (ret[i].called /\ ret[i].op = "getFormattedTime" /\ isnan(ret[i].time)) =>
              ret[i].out = Text(invalidTime)
        /\ (ret[i].called /\ ret[i].op = "getTimes") =>
              LET t == ret[i].times
              IN  /\ \A n \in solved :
                        isnan(t.adjusted[n]) =>
                            (isnan(t.tuned[n]) /\ t.out[n] = Text(invalidTime))
                  /\ (\/ isnan(t.adjusted["sunset"])
                      \/ isnan(t.adjusted[midnightAnchor(ret[i].settings)])) =>
                        (isnan(t.tuned["midnight"]) /\ t.out["midnight"] = Text(invalidTime))

C8_Witness ==
    /\ ret["A"].called /\ ret["A"].op = "getTimes"
    /\ ret["A"].format = "Float"
    /\ isnan(ret["A"].times.adjusted["fajr"])
    /\ ret["A"].times.out["fajr"] = Text(invalidTime)
    /\ ret["A"].times.out["midnight"] = Text(invalidTime)
    /\ ret["A"].times.out["dhuhr"].k = "float"

\* the minute of the day of t: half a minute added, truncated, modulo a day
minuteOfDay(t) == ((t.v + (Minute \div 2)) \div Minute) % (24 * 60)

(* C9: for a finite t, getFormattedTime(t, '24h') is the zero-padded HH:MM   *)
(* of t rounded to the minute modulo 24 hours, HH in 00..23; and             *)
(* getFormattedTime(t, '12h') is the same instant as H:MM, H in 1..12, with  *)
(* am below hour 12 and pm from it on.                                       *)
C9_FormatsTheRoundedMinute ==
    \A i \in Instances :
        (ret[i].called /\ ret[i].op = "getFormattedTime" /\ ~isnan(ret[i].time)) =>
            LET m  == minuteOfDay(ret[i].time)
                hh == m \div 60
                mm == m % 60
            IN  /\ ret[i].format = "24h" =>
                      ret[i].out = Text(decimal02(hh) \o <<":">> \o decimal02(mm))
                /\ ret[i].format = "12h" =>
                      ret[i].out = Text(decimal(((hh + 11) % 12) + 1) \o <<":">>
                                        \o decimal02(mm)
                                        \o (IF hh < 12 THEN <<"a","m">> ELSE <<"p","m">>))

C10_RegistryMerged ==
    alive # {} =>
        \A m \in MethodNames :
            /\ DOMAIN methods[m] = methodKeys
            /\ \A k \in methodKeys :
                  methods[m][k] = IF k \in DOMAIN methodsDecl[m] THEN methodsDecl[m][k]
                                  ELSE defaultParams[k]

C10_Installed ==
    \A m \in MethodNames :
        (last'.op = "setMethod" /\ last'.method = m) =>
            /\ \A k \in methodKeys : settings'[k] = methods'[m][k]
            /\ \A k \in globalKeys : settings'[k] = settings[k]

(* C10: once an instance is constructed every registry entry carries maghrib *)
(* and midnight, its own where it defines them and the defaults otherwise;   *)
(* and setMethod(M) for a recognized M leaves fajr, isha, maghrib, midnight  *)
(* of Settings at M's registry values and imsak, dhuhr, asr, highLats as     *)
(* they were.                                                                *)
C10_MethodParamsInstalled == [](C10_RegistryMerged) /\ [][C10_Installed]_vars

C10_Witness ==
    /\ last.op = "setMethod" /\ last.inst = "A" /\ last.method = "MWL"
    /\ calcMethod["A"] = "MWL" /\ calcMethod["B"] = "Tehran"
    /\ methods["Tehran"]["maghrib"] = Num(45)
    /\ settings["maghrib"] = Str(s_0min) /\ settings["midnight"] = Str(s_Standard)
    /\ settings["fajr"] = Num(180) /\ settings["isha"] = Num(170)
    /\ settings["asr"] = Str(s_Hanafi)

====
